---- MODULE Spec2Model ----
(***************************************************************************)
(* Course Load Estimator (streamlit_app.py).                               *)
(*                                                                         *)
(* Numbers.  Unrounded minutes are exact rationals <<n, d>> with d > 0.    *)
(* A value stored in a result record (read_min, watch_min, do_min,         *)
(* total_min) is the integer number of hundredths that round(x, 2) keeps.  *)
(* Minutes returned by the estimator and the heuristics are carried in     *)
(* thousandths (37500 is 37.5 minutes); a wpm_factor is carried in         *)
(* hundredths (65 is 0.65).                                                *)
(*                                                                         *)
(* Texts.  A text or a payload is a sequence of tokens: "w" is one word    *)
(* (one byte of payload), "ff" a form feed (one page or slide).            *)
(***************************************************************************)
EXTENDS Integers, Sequences, FiniteSets, TLC

VARIABLES
    \* st.session_state
    items, results, pending_videos,
    \* what the last script run showed: the st.error/st.success/... it ended
    \* with, and the per-module table of section 4
    message, summary,
    \* the deployment: secrets present, openai SDK importable
    config,
    \* the items whose content request failed in the last process-items pass
    lms_failed,
    \* canvas_get: the LMS pages served, and the loop's locals
    cg_pages, cg_url, cg_out, cg_fetches, cg_pc,
    \* the last call of extract_file_text, of azure_llm_difficulty and
    \* azure_llm_task_time, of the rollup and of one loop iteration, each on
    \* its own
    ef_call, llm_call, ru_call, est_call

sessionVars == <<items, results, pending_videos>>
appVars == <<items, results, pending_videos, message, summary, config, lms_failed>>
cgVars == <<cg_pages, cg_url, cg_out, cg_fetches, cg_pc>>
vars == <<items, results, pending_videos, message, summary, config, lms_failed,
          cg_pages, cg_url, cg_out, cg_fetches, cg_pc,
          ef_call, llm_call, ru_call, est_call>>

Nil == "None"

----------------------------------------------------------------------------
(* Arithmetic *)

Max(a, b) == IF a >= b THEN a ELSE b

Min(a, b) == IF a <= b THEN a ELSE b

\* round(n/d, 2) in hundredths, d > 0.  Python rounds the exact value of the
\* float to the nearest hundredth, ties to even.
Round2(x) ==
    LET n == x[1] * 100
        d == x[2]
        q == n \div d
        r == n % d
    IN  IF 2 * r < d THEN q
        ELSE IF 2 * r > d THEN q + 1
        ELSE IF q % 2 = 0 THEN q ELSE q + 1

Abs(a) == IF a < 0 THEN -a ELSE a

RECURSIVE Gcd(_, _)
Gcd(a, b) == IF b = 0 THEN a ELSE Gcd(b, a % b)

\* the rational n/d in lowest terms, d > 0
Rat(n, d) == LET g == Gcd(Abs(n), d) IN <<n \div g, d \div g>>

\* a + b of two floats, as exact rationals
RatAdd(a, b) == Rat(a[1] * b[2] + b[1] * a[2], a[2] * b[2])

Zero == <<0, 1>>

\* a stored hundredths value read back as a float
Stored(h) == Rat(h, 100)

\* thousandths of a minute as a float
Milli(m) == Rat(m, 1000)

Range(s) == {s[i] : i \in DOMAIN s}

RECURSIVE SumSeq(_)
SumSeq(s) == IF s = <<>> THEN 0 ELSE Head(s) + SumSeq(Tail(s))

RECURSIVE Count(_, _)
Count(tok, s) ==
    IF s = <<>> THEN 0
    ELSE (IF Head(s) = tok THEN 1 ELSE 0) + Count(tok, Tail(s))

----------------------------------------------------------------------------
(* Difficulty and reading time *)

default_difficulty ==
    [label |-> "average", wpm_factor |-> 100,
     notes |-> "default difficulty (no LLM)", work_rationale |-> Nil]

\* factor = float(difficulty.get("wpm_factor", 1.0) or 1.0);
\* wpm = max(80.0, base_wpm * factor); words / wpm
reading_minutes(words, base_wpm, difficulty) ==
    LET factor == IF difficulty.wpm_factor = 0 THEN 100
                  ELSE difficulty.wpm_factor
        wpm100 == Max(8000, base_wpm * factor)
    IN  Rat(words * 100, wpm100)

----------------------------------------------------------------------------
(* The external estimator.  A reply of the chat-completions service is     *)
(*   [kind |-> "error"]        the request raised (network, HTTP, timeout) *)
(*   [kind |-> "json", ...]    the content is one JSON object              *)
(*   [kind |-> "scalar"]       the content is valid JSON but no object     *)
(*   [kind |-> "prose_json"..] prose around one JSON object                *)
(*   [kind |-> "prose"]        prose with no JSON object                   *)
(* and an object carries num: its numeric field is a number ("number",    *)
(* with val), absent ("missing") or a value float() rejects ("text"), and  *)
(* why: whether the text fields (label, notes / rationale) are present.    *)

\* json.loads(raw) followed by data.get(...) in the first attempt
LoadsObject(r) == r.kind = "json"

\* _coerce_json(raw) or {}
coerce_json(r) ==
    IF r.kind \in {"json", "prose_json"} THEN r
    ELSE [kind |-> "json", num |-> "missing", val |-> 0, why |-> FALSE]

\* float(data.get(field, default)) raises on a value that is no number
FloatFails(r) == r.num = "text"

FloatOf(r, default) == IF r.num = "missing" THEN default ELSE r.val

azure_llm_client(sdk_ok) == sdk_ok

\* azure_llm_task_time whose first attempt does not return: the second
\* request is sent after every first one, and its reply decides
azure_llm_task_time_no_return(sdk_ok, r1, r2) ==
    IF ~azure_llm_client(sdk_ok)
    THEN [raised |-> TRUE, requests |-> <<>>, do_minutes |-> 0, rationale |-> Nil]
    ELSE IF r2.kind # "error" /\ ~FloatFails(coerce_json(r2))
    THEN [raised |-> FALSE, requests |-> <<"json_object", "none">>,
          do_minutes |-> FloatOf(coerce_json(r2), 0),
          rationale |-> IF coerce_json(r2).why THEN "reply" ELSE "fallback parse"]
    ELSE [raised |-> FALSE, requests |-> <<"json_object", "none">>,
          do_minutes |-> 0,
          rationale |-> "default 0 (LLM unavailable)"]

\* Result: raised (the call raised), requests (the response_format of each
\* request sent, in order), and the dict returned.
azure_llm_task_time(sdk_ok, r1, r2) ==
    IF ~azure_llm_client(sdk_ok)
    THEN [raised |-> TRUE, requests |-> <<>>, do_minutes |-> 0, rationale |-> Nil]
    ELSE IF LoadsObject(r1) /\ ~FloatFails(r1)
    THEN [raised |-> FALSE, requests |-> <<"json_object">>,
          do_minutes |-> FloatOf(r1, 0),
          rationale |-> IF r1.why THEN "reply" ELSE "no rationale provided"]
    ELSE IF r2.kind # "error" /\ ~FloatFails(coerce_json(r2))
    THEN [raised |-> FALSE, requests |-> <<"json_object", "none">>,
          do_minutes |-> FloatOf(coerce_json(r2), 0),
          rationale |-> IF coerce_json(r2).why THEN "reply" ELSE "fallback parse"]
    ELSE [raised |-> FALSE, requests |-> <<"json_object", "none">>,
          do_minutes |-> 0,
          rationale |-> "default 0 (LLM unavailable)"]

azure_llm_difficulty(sdk_ok, r1, r2) ==
    IF ~azure_llm_client(sdk_ok)
    THEN [raised |-> TRUE, requests |-> <<>>, label |-> Nil, wpm_factor |-> 0,
          notes |-> Nil]
    ELSE IF LoadsObject(r1) /\ ~FloatFails(r1)
    THEN [raised |-> FALSE, requests |-> <<"json_object">>,
          label |-> IF r1.why THEN "reply" ELSE "average",
          wpm_factor |-> FloatOf(r1, 100),
          notes |-> IF r1.why THEN "reply" ELSE ""]
    ELSE IF r2.kind # "error" /\ ~FloatFails(coerce_json(r2))
    THEN [raised |-> FALSE, requests |-> <<"json_object", "none">>,
          label |-> IF coerce_json(r2).why THEN "reply" ELSE "average",
          wpm_factor |-> FloatOf(coerce_json(r2), 100),
          notes |-> IF coerce_json(r2).why THEN "reply"
                    ELSE "parsed without response_format"]
    ELSE [raised |-> FALSE, requests |-> <<"json_object", "none">>,
          label |-> "average", wpm_factor |-> 100,
          notes |-> "default difficulty (LLM error)"]

----------------------------------------------------------------------------
(* DO-time heuristics *)

\* level.lower().startswith("under")
lvl_factor(level) == IF level = "Undergraduate" THEN 100 ELSE 125

\* heuristic_task_time with the upper threshold compared by <=
heuristic_task_time_le(words, item_type, level) ==
    IF item_type = "Assignment"
    THEN ((IF words < 150 THEN 30000
           ELSE IF words <= 600 THEN 60000 ELSE 120000) * lvl_factor(level)) \div 100
    ELSE IF item_type = "Discussion"
    THEN (35000 * lvl_factor(level)) \div 100
    ELSE 0

\* thousandths of a minute
heuristic_task_time(words, item_type, level) ==
    IF item_type = "Assignment"
    THEN ((IF words < 150 THEN 30000
           ELSE IF words < 600 THEN 60000 ELSE 120000) * lvl_factor(level)) \div 100
    ELSE IF item_type = "Discussion"
    THEN (35000 * lvl_factor(level)) \div 100
    ELSE 0

\* estimate_quiz_time with a floor of 10 minutes for every question count
estimate_quiz_time_floor10(meta) ==
    IF meta.time_limit # 0 THEN meta.time_limit * 1000
    ELSE Max(10000, meta.question_count * 2000)

\* meta is the item's content_details, [] when it has no field at all; a
\* missing time_limit or question_count is 0.  Thousandths of a minute.
estimate_quiz_time(meta) ==
    IF meta = [time_limit |-> 0, question_count |-> 0, has_url |-> FALSE,
               content_type |-> ""]
    THEN 10000
    ELSE IF meta.time_limit # 0
    THEN meta.time_limit * 1000
    ELSE LET qcount == IF meta.question_count = 0 THEN 5 ELSE meta.question_count
         IN  Max(5000, qcount * 2000)

----------------------------------------------------------------------------
(* Video helpers.  A duration string is the sequence of its ":"-separated  *)
(* fields, each field the text the user typed.                             *)

\* int(x) of one field: the fields int() accepts, with their values
IntFields == {<<"00", 0>>, <<"01", 1>>, <<"04", 4>>, <<"30", 30>>,
              <<"90", 90>>, <<"-1", -1>>, <<"-30", -30>>}

IntParses(x) == \E p \in IntFields : p[1] = x

IntOf(x) == (CHOOSE p \in IntFields : p[1] = x)[2]

hhmmss_to_seconds(hhmmss) ==
    IF Len(hhmmss) # 3 THEN 0
    ELSE IF \E i \in 1..3 : ~IntParses(hhmmss[i]) THEN 0
    ELSE Max(0, IntOf(hhmmss[1]) * 3600 + IntOf(hhmmss[2]) * 60 + IntOf(hhmmss[3]))

----------------------------------------------------------------------------
(* Text / file handling *)

\* len(re.findall(r"\b\w+\b", text))
words_from_text(text) == Count("w", text)

\* substring tests on the declared content type
ContentTypes ==
    {"application/pdf", "application/msword", "application/vnd.ms-powerpoint",
     "application/vnd.openxmlformats-officedocument.presentationml.presentation",
     "text/plain"}

IsPdf(ct) == ct = "application/pdf"

IsWord(ct) == ct = "application/msword"

IsPowerpoint(ct) == ct = "application/vnd.ms-powerpoint"

HasPresentation(ct) ==
    ct = "application/vnd.openxmlformats-officedocument.presentationml.presentation"

\* data = r.content[:max_bytes]
Truncate(payload, max_bytes) == SubSeq(payload, 1, Min(Len(payload), max_bytes))

\* dl is the download: has_url (file_url is set), status ("ok", or "error"
\* when the request or raise_for_status raises), payload (r.content), and
\* lib: what the format's library does with the data ("ok", "raises", or
\* "absent" when its import failed).
extract_file_text(dl, content_type, max_bytes) ==
    IF ~dl.has_url THEN [raised |-> FALSE, text |-> <<>>, pages |-> 0]
    ELSE IF dl.status # "ok" THEN [raised |-> TRUE, text |-> <<>>, pages |-> 0]
    ELSE LET data == Truncate(dl.payload, max_bytes)
         IN  IF IsPdf(content_type) /\ dl.lib = "ok"
             THEN [raised |-> FALSE, text |-> data, pages |-> Count("ff", data)]
             ELSE IF IsWord(content_type) /\ dl.lib = "ok"
             THEN [raised |-> FALSE, text |-> data, pages |-> 0]
             ELSE IF IsPowerpoint(content_type) /\ dl.lib = "ok"
             THEN [raised |-> FALSE, text |-> <<>>, pages |-> Count("ff", data)]
             ELSE [raised |-> FALSE, text |-> data, pages |-> 0]

MAX_FILE_BYTES == 25 * 1024 * 1024

----------------------------------------------------------------------------
(* The LMS: the module listing of a course, and what its content endpoints *)
(* and the estimator answer while a pass runs.                             *)

\* content_details of a module item; a field the LMS leaves out is FALSE, ""
\* or 0 here (the code tests each for truth, and None, "" and 0 are all false)
Details(has_url, content_type, time_limit, question_count) ==
    [has_url |-> has_url, content_type |-> content_type,
     time_limit |-> time_limit, question_count |-> question_count]

NoDetails == Details(FALSE, "", 0, 0)

Module(name, position, type, id, details, video_url) ==
    [name |-> name, position |-> position,
     items |-> <<[type |-> type, id |-> id, content_id |-> id,
                  content_details |-> details, video_url |-> video_url]>>]

ModuleCatalogue ==
    <<Module("Week 2", 2, "Page", 1, NoDetails, FALSE),
      Module("Week 1", 0, "File", 2, Details(TRUE, "application/pdf", 0, 0), FALSE),
      Module("Week 1", 1, "Assignment", 3, NoDetails, FALSE),
      Module("", 3, "Quiz", 4, Details(FALSE, "", 0, 10), FALSE),
      Module("Week 2", 4, "Discussion", 5, NoDetails, FALSE),
      Module("Week 3", 5, "ExternalUrl", 6, NoDetails, TRUE)>>

\* what canvas_get returns for /courses/{id}/modules?include[]=items: the
\* courses are the runs of at most two consecutive modules of the catalogue
Courses ==
    {SubSeq(ModuleCatalogue, w[1], w[1] + w[2] - 1) :
        w \in {v \in (1..Len(ModuleCatalogue)) \X (0..2) :
                  v[1] + v[2] - 1 <= Len(ModuleCatalogue)}}

\* get_modules_with_items: one item per entry of every module's item list
RECURSIVE ItemsOf(_, _)
ItemsOf(mod, its) ==
    IF its = <<>> THEN <<>>
    ELSE <<[module_name |-> mod.name,
            position |-> mod.position,
            item_type |-> Head(its).type,
            content_id |-> Head(its).content_id,
            content_details |-> Head(its).content_details,
            video_url |-> Head(its).video_url,
            item_key |-> <<Head(its).type, Head(its).id>>]>>
         \o ItemsOf(mod, Tail(its))

RECURSIVE get_modules_with_items(_)
get_modules_with_items(mods) ==
    IF mods = <<>> THEN <<>>
    ELSE ItemsOf(Head(mods), Head(mods).items) \o get_modules_with_items(Tail(mods))

\* strip_html_to_text + words_from_text, and detect_videos_from_html, of a
\* body: its word count and the number of videos found in it
Body(words, videos) == [words |-> words, videos |-> videos]

EmptyBody == Body(0, 0)

\* the body behind each page, assignment and discussion of the catalogue
BodyOf(content_id) ==
    IF content_id = 1 THEN Body(450, 2)
    ELSE IF content_id = 3 THEN Body(1, 0)
    ELSE IF content_id = 5 THEN Body(600, 1)
    ELSE EmptyBody

\* A reply of the service: see the estimator above.
Reply(kind, num, val, why) == [kind |-> kind, num |-> num, val |-> val, why |-> why]

Failed(kind) == Reply(kind, "missing", 0, FALSE)

Object(kind, val, why) == Reply(kind, "number", val, why)

NoObject == {Failed(k) : k \in {"error", "scalar", "prose"}}

Objects(vals) ==
    {Object(k, v, w) : k \in {"json", "prose_json"}, v \in vals, w \in BOOLEAN}
    \cup {Reply(k, n, 0, w) : k \in {"json", "prose_json"}, n \in {"missing", "text"},
                              w \in BOOLEAN}

\* do_minutes in thousandths of a minute
TaskReplies == NoObject \cup Objects({4, 45000, -5000})

\* wpm_factor in hundredths
DiffReplies == NoObject \cup Objects({65, 130, 0, -100})

\* The two replies a call may consume, as a pass meets them.
TaskCalls ==
    {<<Object("json", v, TRUE), Failed("error")>> : v \in {4, -5000}}
    \cup {<<Failed("error"), Failed("error")>>}

DiffCalls ==
    {<<Object("json", 65, TRUE), Failed("error")>>,
     <<Failed("scalar"), Object("prose_json", -100, FALSE)>>}

NoCall == <<Failed("error"), Failed("error")>>

Download(status, payload, lib) ==
    [has_url |-> TRUE, status |-> status, payload |-> payload, lib |-> lib]

Downloads ==
    {Download("error", <<>>, "ok"), Download("ok", <<"w">>, "ok"),
     Download("ok", <<"ff", "ff">>, "raises")}

NoDownload == [has_url |-> FALSE, status |-> "ok", payload |-> <<>>, lib |-> "absent"]

Env(fetch_ok, body, diff, task, dl) ==
    [fetch_ok |-> fetch_ok, body |-> body, diff |-> diff, task |-> task, dl |-> dl]

\* What the LMS and the estimator may answer while one item is processed:
\* bodies, downloads, and the calls dc and tc the estimator may answer.
\* fetch_ok is FALSE, or dl.status "error", only where the item's request
\* is sent and fails.
EnvsOf(it, inp, bodies, downloads, dcs, tcs) ==
    LET dc(words) == IF inp.use_llm /\ words > 0 THEN dcs ELSE {NoCall}
        tc(words) == IF inp.use_llm /\ words > 0
                        /\ it.item_type \in {"Assignment", "Discussion"}
                     THEN tcs ELSE {NoCall}
    IN  IF it.item_type \in {"Page", "Assignment", "Discussion"}
        THEN {Env(FALSE, EmptyBody, NoCall, NoCall, NoDownload)}
             \cup UNION {{Env(TRUE, b, d, t, NoDownload) :
                            d \in dc(b.words), t \in tc(b.words)} : b \in bodies}
        ELSE IF it.item_type = "File"
        THEN UNION {{Env(TRUE, EmptyBody, d, NoCall, dl) :
                        d \in dc(words_from_text(dl.payload))} : dl \in downloads}
        ELSE IF it.item_type = "Quiz"
        THEN IF inp.use_llm /\ it.content_id # 0
             THEN {Env(FALSE, EmptyBody, NoCall, NoCall, NoDownload)}
                  \cup {Env(TRUE, EmptyBody, NoCall, t, NoDownload) : t \in tcs}
             ELSE {Env(TRUE, EmptyBody, NoCall, NoCall, NoDownload)}
        ELSE {Env(TRUE, EmptyBody, NoCall, NoCall, NoDownload)}

EnvFor(it, inp) ==
    EnvsOf(it, inp, {BodyOf(it.content_id)}, Downloads, DiffCalls, TaskCalls)

RECURSIVE EnvSeqs(_, _)
EnvSeqs(its, inp) ==
    IF its = <<>> THEN {<<>>}
    ELSE {<<e>> \o rest : e \in EnvFor(Head(its), inp), rest \in EnvSeqs(Tail(its), inp)}

----------------------------------------------------------------------------
(* One iteration of the process-items loop (main, "for it in items").      *)
(* title and url of a record are dropped: nothing reads them.              *)

NewVideo(item_key) ==
    [hhmmss |-> <<"00", "00", "00">>, seconds |-> 0, item_key |-> item_key]

\* the record appended for an item; watch_min is 0.0 in the loop
ResultRecord(it, read, do, difficulty) ==
    [module |-> it.module_name,
     module_position |-> it.position,
     type |-> it.item_type,
     item_key |-> it.item_key,
     read_min |-> Round2(read),
     watch_min |-> Round2(Zero),
     do_min |-> Round2(Milli(do)),
     total_min |-> Round2(RatAdd(RatAdd(read, Zero), Milli(do))),
     difficulty |-> difficulty]

Outcome(raised, rec, vids) == [raised |-> raised, rec |-> rec, vids |-> vids]

\* difficulty = azure_llm_difficulty(...), or default_difficulty() when the
\* estimator is off or the call raised
DifficultyOf(words, inp, env) ==
    LET d == azure_llm_difficulty(config.sdk, env.diff[1], env.diff[2])
    IN  IF words > 0 /\ inp.use_llm /\ ~d.raised
        THEN [label |-> d.label, wpm_factor |-> d.wpm_factor, notes |-> d.notes,
              work_rationale |-> Nil]
        ELSE default_difficulty

\* Pages / Assignments / Discussions
HtmlItem(it, inp, env) ==
    LET body == IF env.fetch_ok THEN env.body ELSE EmptyBody
        words == body.words
        vids == [k \in {<<it.item_key, "embed", idx>> : idx \in 1..body.videos}
                    |-> NewVideo(it.item_key)]
        difficulty == DifficultyOf(words, inp, env)
        read == IF words > 0 THEN reading_minutes(words, inp.base_wpm, difficulty)
                ELSE Zero
        task == azure_llm_task_time(config.sdk, env.task[1], env.task[2])
        does == it.item_type \in {"Assignment", "Discussion"} /\ words > 0
        do == IF ~does THEN 0
              ELSE IF inp.use_llm /\ ~task.raised THEN task.do_minutes
              ELSE heuristic_task_time(words, it.item_type, inp.level)
        diff2 == IF does /\ inp.use_llm /\ ~task.raised
                 THEN [difficulty EXCEPT !.work_rationale = task.rationale]
                 ELSE difficulty
    IN  Outcome(FALSE, ResultRecord(it, read, do, diff2), vids)

\* Files: extract_file_text is called outside any try
FileItem(it, inp, env) ==
    LET cd == it.content_details
        ct == cd.content_type
        x == extract_file_text([env.dl EXCEPT !.has_url = cd.has_url], ct,
                               MAX_FILE_BYTES)
        words == words_from_text(x.text)
        difficulty == DifficultyOf(words, inp, env)
        mp == IF HasPresentation(ct) THEN 2000 ELSE 3500
        read == IF words > 0 THEN reading_minutes(words, inp.base_wpm, difficulty)
                ELSE Milli(x.pages * mp)
    IN  IF ~cd.has_url
        THEN Outcome(FALSE, ResultRecord(it, Zero, 0, default_difficulty), <<>>)
        ELSE IF x.raised
        THEN Outcome(TRUE, ResultRecord(it, Zero, 0, default_difficulty), <<>>)
        ELSE Outcome(FALSE, ResultRecord(it, read, 0, difficulty), <<>>)

\* Quizzes: get_quiz and azure_llm_task_time share one try
QuizItem(it, inp, env) ==
    LET heur == estimate_quiz_time(it.content_details)
        task == azure_llm_task_time(config.sdk, env.task[1], env.task[2])
        refined == inp.use_llm /\ it.content_id # 0 /\ env.fetch_ok /\ ~task.raised
        do == IF refined THEN task.do_minutes ELSE heur
        difficulty == IF refined
                      THEN [default_difficulty EXCEPT !.work_rationale = task.rationale]
                      ELSE default_difficulty
    IN  Outcome(FALSE, ResultRecord(it, Zero, do, difficulty), <<>>)

\* anything else: an external link to a video host becomes a pending video
OtherItem(it, inp, env) ==
    Outcome(FALSE, ResultRecord(it, Zero, 0, default_difficulty),
            IF it.video_url
            THEN [k \in {<<it.item_key, "external", 0>>} |-> NewVideo(it.item_key)]
            ELSE <<>>)

ProcessOne(it, inp, env) ==
    IF it.item_type \in {"Page", "Assignment", "Discussion"} THEN HtmlItem(it, inp, env)
    ELSE IF it.item_type = "File" THEN FileItem(it, inp, env)
    ELSE IF it.item_type = "Quiz" THEN QuizItem(it, inp, env)
    ELSE OtherItem(it, inp, env)

\* pending_videos[v_key] = {...} for every key of vids
Merge(pend, vids) ==
    [k \in DOMAIN pend \cup DOMAIN vids |->
        IF k \in DOMAIN vids THEN vids[k] ELSE pend[k]]

----------------------------------------------------------------------------
(* Sections 3 and 4 of main: every script run ends with them.              *)

RECURSIVE SumSeconds(_, _, _)
SumSeconds(pend, keys, ik) ==
    IF keys = {} THEN 0
    ELSE LET k == CHOOSE x \in keys : TRUE
         IN  (IF pend[k].item_key = ik THEN pend[k].seconds ELSE 0)
             + SumSeconds(pend, keys \ {k}, ik)

\* RecomputeWatch with item_seconds[ik] assigned instead of accumulated: one
\* video of the item decides its seconds
RecomputeWatch_overwrite(res, pend) ==
    IF DOMAIN pend = {} THEN res
    ELSE [i \in DOMAIN res |->
            LET r == res[i]
                mine == {k \in DOMAIN pend : pend[k].item_key = r.item_key}
                sec == IF mine = {} THEN 0 ELSE pend[CHOOSE k \in mine : TRUE].seconds
                w == Round2(Rat(sec, 60))
            IN  [r EXCEPT
                   !.watch_min = w,
                   !.total_min = Round2(RatAdd(RatAdd(Stored(r.read_min), Stored(w)),
                                               Stored(r.do_min)))]]

\* "Recompute watch_min per item": runs only when pending is not empty
RecomputeWatch(res, pend) ==
    IF DOMAIN pend = {} THEN res
    ELSE [i \in DOMAIN res |->
            LET r == res[i]
                w == Round2(Rat(SumSeconds(pend, DOMAIN pend, r.item_key), 60))
            IN  [r EXCEPT
                   !.watch_min = w,
                   !.total_min = Round2(RatAdd(RatAdd(Stored(r.read_min), Stored(w)),
                                               Stored(r.do_min)))]]

\* str order of the module names in use
ModuleOrder == <<"", "Week 1", "Week 2", "Week 3">>

NameRank(name) == CHOOSE i \in DOMAIN ModuleOrder : ModuleOrder[i] = name

\* df.groupby(["module", "module_position"]): the group keys
GroupKeys(res) == {<<r.module, r.module_position>> : r \in Range(res)}

ColumnSum(res, key, col) ==
    SumSeq([i \in DOMAIN res |->
              IF <<res[i].module, res[i].module_position>> = key
              THEN res[i][col] ELSE 0])

GroupRow(res, key) ==
    [module |-> key[1], module_position |-> key[2],
     read_min |-> ColumnSum(res, key, "read_min"),
     watch_min |-> ColumnSum(res, key, "watch_min"),
     do_min |-> ColumnSum(res, key, "do_min"),
     total_min |-> ColumnSum(res, key, "total_min")]

\* the order groupby leaves, without sort_values("module_position")
KeyBefore_groupby_only(a, b) ==
    \/ NameRank(a[1]) < NameRank(b[1])
    \/ a[1] = b[1] /\ a[2] <= b[2]

\* groupby sorts by (module, module_position); sort_values orders that by
\* module_position.  Rows of equal position are taken in groupby order, as
\* the sort leaves them in tables this short.
KeyBefore(a, b) ==
    \/ a[2] < b[2]
    \/ a[2] = b[2] /\ NameRank(a[1]) <= NameRank(b[1])

RECURSIVE SortKeys(_)
SortKeys(keys) ==
    IF keys = {} THEN <<>>
    ELSE LET k == CHOOSE a \in keys : \A b \in keys : KeyBefore(a, b)
         IN  <<k>> \o SortKeys(keys \ {k})

mod_summary(res) ==
    LET ks == SortKeys(GroupKeys(res))
    IN  [i \in DOMAIN ks |-> GroupRow(res, ks[i])]

RECURSIVE MaxOf(_)
MaxOf(s) == IF Len(s) = 1 THEN s[1] ELSE Max(Head(s), MaxOf(Tail(s)))

Column(rows, col) == [i \in DOMAIN rows |-> rows[i][col]]

grand_totals(rows) ==
    [module |-> "Grand Total",
     module_position |-> IF Len(rows) > 0
                         THEN MaxOf(Column(rows, "module_position")) + 1 ELSE 9999,
     read_min |-> SumSeq(Column(rows, "read_min")),
     watch_min |-> SumSeq(Column(rows, "watch_min")),
     do_min |-> SumSeq(Column(rows, "do_min")),
     total_min |-> SumSeq(Column(rows, "total_min"))]

\* pd.concat([mod_summary, grand_totals]); nothing is shown without results
mod_summary_with_total(res) ==
    IF res = <<>> THEN <<>>
    ELSE LET rows == mod_summary(res) IN rows \o <<grand_totals(rows)>>

----------------------------------------------------------------------------
(* The script runs.  Every run of main is one button (or none) followed by *)
(* sections 3 and 4.                                                       *)

CourseIds == {"", "101"}

Levels == {"Undergraduate", "Graduate"}

BaseWpms == {250}

Inputs == [use_llm : BOOLEAN, level : Levels, base_wpm : BaseWpms]

Durations ==
    {<<"00", "00", "00">>, <<"01", "30", "00">>, <<"01", "02">>,
     <<"00", "xx", "00">>, <<"00", "01", "-30">>, <<"00", "00", "-1">>}

Configs ==
    {[canvas |-> c, azure |-> a, sdk |-> k] : c \in BOOLEAN, a \in BOOLEAN, k \in BOOLEAN}

NoPending == <<>>

\* the loop over items: outs[i] is what iteration i leaves
Outcomes(its, inp, envs) == [i \in DOMAIN its |-> ProcessOne(its[i], inp, envs[i])]

\* the first iteration that raises, 0 when none does
FirstRaised(outs) ==
    IF \E i \in DOMAIN outs : outs[i].raised
    THEN CHOOSE i \in DOMAIN outs :
            outs[i].raised /\ \A j \in 1..(i - 1) : ~outs[j].raised
    ELSE 0

RECURSIVE MergeAll(_)
MergeAll(outs) ==
    IF outs = <<>> THEN NoPending
    ELSE Merge(outs[1].vids, MergeAll(Tail(outs)))

\* the items, up to iteration n, whose content request failed
FailedUpTo(its, envs, n) ==
    {its[i].item_key : i \in {j \in 1..n : ~envs[j].fetch_ok \/ envs[j].dl.status # "ok"}}

\* sections 3 (without a save) and 4, from the session as the run left it
RestOfRun(res, pend) ==
    /\ results' = RecomputeWatch(res, pend)
    /\ pending_videos' = pend
    /\ summary' = mod_summary_with_total(results')

InitSession ==
    /\ items = <<>>
    /\ results = <<>>
    /\ pending_videos = NoPending
    /\ message = "none"
    /\ summary = <<>>
    /\ lms_failed = {}

InitApp == InitSession /\ config \in Configs

\* the app left alone, fully configured, while one function is exercised
InitAppIdle == InitSession /\ config = [canvas |-> TRUE, azure |-> TRUE, sdk |-> TRUE]

\* ScanError with the session cleared before the listing is tried
ScanError_clears_first ==
    /\ \E course_id \in CourseIds, lms \in {"ok", "error"} :
        /\ course_id = "" \/ ~config.canvas \/ lms = "error"
        /\ message' = IF course_id = "" THEN "Enter a Canvas Course ID."
                      ELSE IF ~config.canvas THEN "Canvas configuration not set."
                      ELSE "Canvas API error"
    /\ RestOfRun(<<>>, NoPending)
    /\ UNCHANGED <<items, config, lms_failed>>
    /\ UNCHANGED <<cgVars, ef_call, llm_call, ru_call, est_call>>

\* "Scan course modules & items" that fails
ScanError ==
    /\ \E course_id \in CourseIds, lms \in {"ok", "error"} :
        /\ course_id = "" \/ ~config.canvas \/ lms = "error"
        /\ message' = IF course_id = "" THEN "Enter a Canvas Course ID."
                      ELSE IF ~config.canvas THEN "Canvas configuration not set."
                      ELSE "Canvas API error"
    /\ RestOfRun(results, pending_videos)
    /\ UNCHANGED <<items, config, lms_failed>>
    /\ UNCHANGED <<cgVars, ef_call, llm_call, ru_call, est_call>>

\* Scan without the reset of pending_videos
Scan_keeps_pending ==
    /\ config.canvas
    /\ \E mods \in Courses : items' = get_modules_with_items(mods)
    /\ message' = "Found module items."
    /\ RestOfRun(<<>>, pending_videos)
    /\ lms_failed' = {}
    /\ UNCHANGED config
    /\ UNCHANGED <<cgVars, ef_call, llm_call, ru_call, est_call>>

\* "Scan course modules & items" that lists the course
Scan ==
    /\ config.canvas
    /\ \E mods \in Courses : items' = get_modules_with_items(mods)
    /\ message' = "Found module items."
    /\ RestOfRun(<<>>, NoPending)
    /\ lms_failed' = {}
    /\ UNCHANGED config
    /\ UNCHANGED <<cgVars, ef_call, llm_call, ru_call, est_call>>

\* "Process items for workload" that does not reach the loop
ProcessBlocked ==
    /\ \E inp \in Inputs :
        /\ items = <<>> \/ (inp.use_llm /\ ~config.azure)
        /\ message' = IF items = <<>> THEN "No items scanned yet."
                      ELSE "Azure OpenAI is not configured."
    /\ RestOfRun(results, pending_videos)
    /\ UNCHANGED <<items, config, lms_failed>>
    /\ UNCHANGED <<cgVars, ef_call, llm_call, ru_call, est_call>>

\* "Process items for workload": the loop, then sections 3 and 4; an
\* exception that leaves the loop ends the script run there
Process ==
    /\ items # <<>>
    /\ \E inp \in Inputs :
        /\ ~inp.use_llm \/ config.azure
        /\ \E envs \in EnvSeqs(items, inp) :
            LET outs == Outcomes(items, inp, envs)
                n == FirstRaised(outs)
            IN  IF n # 0
                THEN /\ message' = "exception"
                     /\ summary' = <<>>
                     /\ lms_failed' = FailedUpTo(items, envs, n)
                     /\ UNCHANGED <<results, pending_videos>>
                ELSE /\ message' = "Processed items."
                     /\ RestOfRun([i \in DOMAIN outs |-> outs[i].rec], MergeAll(outs))
                     /\ lms_failed' = FailedUpTo(items, envs, Len(items))
    /\ UNCHANGED <<items, config>>
    /\ UNCHANGED <<cgVars, ef_call, llm_call, ru_call, est_call>>

\* the Save button of one pending video
Save ==
    /\ \E v_key \in DOMAIN pending_videos, hhmmss \in Durations :
        LET sec == hhmmss_to_seconds(hhmmss)
        IN  IF sec <= 0
            THEN /\ message' = "Invalid hh:mm:ss (must be > 00:00:00)."
                 /\ RestOfRun(results, pending_videos)
            ELSE /\ message' = "Saved."
                 /\ RestOfRun(results,
                              [pending_videos EXCEPT
                                 ![v_key].hhmmss = hhmmss, ![v_key].seconds = sec])
    /\ UNCHANGED <<items, config, lms_failed>>
    /\ UNCHANGED <<cgVars, ef_call, llm_call, ru_call, est_call>>

\* a rerun with no button pressed
Render ==
    /\ message' = "none"
    /\ RestOfRun(results, pending_videos)
    /\ UNCHANGED <<items, config, lms_failed>>
    /\ UNCHANGED <<cgVars, ef_call, llm_call, ru_call, est_call>>

NoCallYet == [done |-> FALSE]

InitPagingIdle ==
    /\ cg_pages = <<>>
    /\ cg_url = 0
    /\ cg_out = <<>>
    /\ cg_fetches = 0
    /\ cg_pc = "idle"

InitCallsIdle ==
    /\ ef_call = NoCallYet
    /\ llm_call = NoCallYet
    /\ ru_call = NoCallYet
    /\ est_call = NoCallYet

Init == InitApp /\ InitPagingIdle /\ InitCallsIdle

Next ==
    \/ ScanError
    \/ Scan
    \/ ProcessBlocked
    \/ Process
    \/ Save
    \/ Render

Spec == Init /\ [][Next]_vars

----------------------------------------------------------------------------
(* canvas_get against an LMS that serves numbered pages.  A response is    *)
(* status ("ok" or "error"), is_list and entries (r.json()), and link: the *)
(* Link header split at its commas, each part its rel and the number of    *)
(* the page its <...> names (0 when re.search finds no <...> in the part). *)

MaxPages == 3

Part(rel, target) == [rel |-> rel, target |-> target]

\* the Link headers page i of n may carry
LinkHeaders(i, n) ==
    {<<>>,
     <<Part("current", i), Part("first", 1), Part("last", n)>>,
     <<Part("next", 0)>>}
    \cup (IF i < n
          THEN {<<Part("next", i + 1)>>,
                <<Part("current", i), Part("next", i + 1), Part("first", 1)>>,
                <<Part("next", i + 1), Part("next", 0)>>}
          ELSE {})
    \cup (IF i > 1 THEN {<<Part("prev", i - 1), Part("next", 1)>>} ELSE {})

Response(i, link, is_list, status) ==
    [status |-> status, is_list |-> is_list,
     entries |-> IF is_list THEN <<10 * i, 10 * i + 1>> ELSE <<10 * i>>,
     link |-> link]

Responses(i, n) ==
    {Response(i, l, b, "ok") : l \in LinkHeaders(i, n), b \in BOOLEAN}
    \cup {Response(i, <<>>, TRUE, "error")}

\* every LMS of n pages
RECURSIVE Servers(_, _)
Servers(i, n) ==
    IF i > n THEN {<<>>}
    ELSE {<<r>> \o rest : r \in Responses(i, n), rest \in Servers(i + 1, n)}

\* next_url read from the first part of the header only
next_url_first_part(link) ==
    IF link # <<>> /\ link[1].rel = "next" /\ link[1].target # 0 THEN link[1].target
    ELSE 0

\* the for loop over link.split(","): the last part that holds rel="next"
\* and a <...> sets next_url
RECURSIVE next_url(_)
next_url(link) ==
    IF link = <<>> THEN 0
    ELSE LET last == link[Len(link)]
         IN  IF last.rel = "next" /\ last.target # 0 THEN last.target
             ELSE next_url(SubSeq(link, 1, Len(link) - 1))

InitPaging ==
    /\ \E n \in 1..MaxPages : cg_pages \in Servers(1, n)
    /\ cg_url = 1
    /\ cg_out = <<>>
    /\ cg_fetches = 0
    /\ cg_pc = "loop"

\* one iteration of "while url"; the loop is left when a request raises or
\* fetches reach the bound of the model
CgFetch ==
    /\ cg_pc = "loop"
    /\ cg_url # 0
    /\ cg_fetches <= MaxPages
    /\ LET r == cg_pages[cg_url]
       IN  /\ cg_fetches' = cg_fetches + 1
           /\ IF r.status # "ok"
              THEN /\ cg_pc' = "raised"
                   /\ UNCHANGED <<cg_url, cg_out>>
              ELSE /\ cg_out' = cg_out \o r.entries
                   /\ cg_url' = next_url(r.link)
                   /\ cg_pc' = "loop"
    /\ UNCHANGED <<cg_pages, appVars, ef_call, llm_call, ru_call, est_call>>

\* "return out"
CgReturn ==
    /\ cg_pc = "loop"
    /\ cg_url = 0
    /\ cg_pc' = "done"
    /\ UNCHANGED <<cg_pages, cg_url, cg_out, cg_fetches>>
    /\ UNCHANGED <<appVars, ef_call, llm_call, ru_call, est_call>>

NextPaging == CgFetch \/ CgReturn

InitPagingSpec == InitAppIdle /\ InitPaging /\ InitCallsIdle

SpecPaging == InitPagingSpec /\ [][NextPaging]_vars

\* the concatenation of every page's entries, in page order
RECURSIVE EntriesOf(_)
EntriesOf(pages) ==
    IF pages = <<>> THEN <<>> ELSE Head(pages).entries \o EntriesOf(Tail(pages))

\* A chain of n pages: every response is served, each of the first n - 1
\* carries a rel="next" link and its rel="next" links name the page after it,
\* and the last carries no rel="next" part.
IsChain(pages) ==
    /\ pages # <<>>
    /\ \A i \in DOMAIN pages :
        /\ pages[i].status = "ok"
        /\ IF i < Len(pages)
           THEN /\ \E k \in DOMAIN pages[i].link :
                     pages[i].link[k] = Part("next", i + 1)
                /\ \A k \in DOMAIN pages[i].link :
                     pages[i].link[k].rel = "next" /\ pages[i].link[k].target # 0
                        => pages[i].link[k].target = i + 1
           ELSE \A k \in DOMAIN pages[i].link : pages[i].link[k].rel # "next"

----------------------------------------------------------------------------
(* extract_file_text on its own: one call on a download drawn from the     *)
(* payloads of up to MaxPayload bytes and a max_bytes of up to MaxBytes.   *)

MaxPayload == 3

MaxBytes == 2

RECURSIVE PayloadsOf(_)
PayloadsOf(n) ==
    IF n = 0 THEN {<<>>}
    ELSE PayloadsOf(n - 1)
         \cup {Append(p, t) : p \in {q \in PayloadsOf(n - 1) : Len(q) = n - 1},
                              t \in {"w", "ff"}}

ExtractFile ==
    /\ ~ef_call.done
    /\ \E has_url \in BOOLEAN, status \in {"ok", "error"},
          payload \in PayloadsOf(MaxPayload), lib \in {"ok", "raises", "absent"},
          content_type \in ContentTypes, max_bytes \in 0..MaxBytes :
        LET dl == [has_url |-> has_url, status |-> status, payload |-> payload,
                   lib |-> lib]
        IN  ef_call' = [done |-> TRUE, dl |-> dl, content_type |-> content_type,
                        max_bytes |-> max_bytes,
                        out |-> extract_file_text(dl, content_type, max_bytes)]
    /\ UNCHANGED <<appVars, cgVars, llm_call, ru_call, est_call>>

InitFile == InitAppIdle /\ InitPagingIdle /\ InitCallsIdle

SpecFile == InitFile /\ [][ExtractFile]_vars

----------------------------------------------------------------------------
(* azure_llm_difficulty and azure_llm_task_time on their own: one call,    *)
(* with the SDK importable or not and any two replies of the service.      *)

LlmDifficulty ==
    /\ ~llm_call.done
    /\ \E sdk_ok \in BOOLEAN, r1 \in DiffReplies, r2 \in DiffReplies :
        llm_call' = [done |-> TRUE, fn |-> "azure_llm_difficulty", sdk_ok |-> sdk_ok,
                     r1 |-> r1, r2 |-> r2,
                     out |-> azure_llm_difficulty(sdk_ok, r1, r2)]
    /\ UNCHANGED <<appVars, cgVars, ef_call, ru_call, est_call>>

LlmTaskTime ==
    /\ ~llm_call.done
    /\ \E sdk_ok \in BOOLEAN, r1 \in TaskReplies, r2 \in TaskReplies :
        llm_call' = [done |-> TRUE, fn |-> "azure_llm_task_time", sdk_ok |-> sdk_ok,
                     r1 |-> r1, r2 |-> r2,
                     out |-> azure_llm_task_time(sdk_ok, r1, r2)]
    /\ UNCHANGED <<appVars, cgVars, ef_call, ru_call, est_call>>

InitLlm == InitAppIdle /\ InitPagingIdle /\ InitCallsIdle

NextLlm == LlmDifficulty \/ LlmTaskTime

SpecLlm == InitLlm /\ [][NextLlm]_vars

----------------------------------------------------------------------------
(* The rollup of section 4 on its own: one rendering of up to MaxRecords   *)
(* result records, in any order.  Only the columns the rollup reads are    *)
(* drawn.                                                                  *)

MaxRecords == 3

RollupRecords ==
    {[module |-> m, module_position |-> p, read_min |-> r, watch_min |-> 0,
      do_min |-> 100, total_min |-> r + 100] :
        m \in {"", "Week 1", "Week 2"}, p \in 0..2, r \in {0, 150}}

RECURSIVE RecordSeqs(_)
RecordSeqs(n) ==
    IF n = 0 THEN {<<>>}
    ELSE RecordSeqs(n - 1)
         \cup {Append(q, r) : q \in {x \in RecordSeqs(n - 1) : Len(x) = n - 1},
                              r \in RollupRecords}

Rollup ==
    /\ ~ru_call.done
    /\ \E res \in RecordSeqs(MaxRecords) :
        ru_call' = [done |-> TRUE, res |-> res, table |-> mod_summary_with_total(res)]
    /\ UNCHANGED <<appVars, cgVars, ef_call, llm_call, est_call>>

InitRollup == InitAppIdle /\ InitPagingIdle /\ InitCallsIdle

SpecRollup == InitRollup /\ [][Rollup]_vars

----------------------------------------------------------------------------
(* One iteration of the process-items loop on its own: any item of the     *)
(* catalogue, any sidebar setting, any body and any pair of replies to the *)
(* task-time call.                                                         *)

WideInputs == [use_llm : BOOLEAN, level : Levels, base_wpm : {150, 250}]

WideBodies == {Body(0, 0), Body(1, 0), Body(149, 1), Body(450, 2), Body(600, 0)}

WideTaskCalls == TaskReplies \X TaskReplies

\* the quiz of the catalogue with every content_details the LMS may send
WideQuizzes ==
    UNION {Range(get_modules_with_items(
                    <<Module("", 3, "Quiz", 4, Details(FALSE, "", t, q), FALSE)>>)) :
                t \in {0, 30}, q \in {0, 1, 10}}

WideItems == Range(get_modules_with_items(ModuleCatalogue)) \cup WideQuizzes

Estimate ==
    /\ ~est_call.done
    /\ \E it \in WideItems, inp \in WideInputs :
        \E env \in EnvsOf(it, inp, WideBodies, Downloads, DiffCalls, WideTaskCalls) :
            est_call' = [done |-> TRUE, it |-> it, inp |-> inp, env |-> env,
                         out |-> ProcessOne(it, inp, env)]
    /\ UNCHANGED <<appVars, cgVars, ef_call, llm_call, ru_call>>

InitEst ==
    /\ InitSession
    /\ config \in {c \in Configs : c.canvas /\ c.azure}
    /\ InitPagingIdle
    /\ InitCallsIdle

SpecEst == InitEst /\ [][Estimate]_vars

----------------------------------------------------------------------------
(* reading_minutes on its own: one call on any word count, any reading     *)
(* speed and any wpm_factor a difficulty may hold.                         *)

ReadWords == {0, 1, 149, 450, 600, 1000}

ReadWpms == {150, 200, 225, 250, 350}

ReadDifficulties ==
    {[default_difficulty EXCEPT !.wpm_factor = f] : f \in {100, 65, 130, 0, -100}}

ReadingMinutes ==
    /\ ~est_call.done
    /\ \E words \in ReadWords, base_wpm \in ReadWpms, difficulty \in ReadDifficulties :
        est_call' = [done |-> TRUE, words |-> words, base_wpm |-> base_wpm,
                     difficulty |-> difficulty,
                     out |-> reading_minutes(words, base_wpm, difficulty)]
    /\ UNCHANGED <<appVars, cgVars, ef_call, llm_call, ru_call>>

InitRead == InitAppIdle /\ InitPagingIdle /\ InitCallsIdle

SpecRead == InitRead /\ [][ReadingMinutes]_vars

----------------------------------------------------------------------------
(* Properties of the session (Spec).                                       *)

StoredSum(r) ==
    Round2(RatAdd(RatAdd(Stored(r.read_min), Stored(r.watch_min)), Stored(r.do_min)))

\* C1: in every reachable session state every result record has
\* total_min = round(read_min + watch_min + do_min, 2), computed from the
\* three values stored in that record.
C1_TotalIsSumOfStored ==
    \A i \in DOMAIN results : results[i].total_min = StoredSum(results[i])

\* C2: a pass in which the content request of some item failed is not
\* aborted: it ends with a record for every item, stored in the session, and
\* the records of the failing items have zero read and do minutes.
C2_FetchFailureKeepsPass ==
    (message \in {"Processed items.", "exception"} /\ lms_failed # {})
        => /\ message = "Processed items."
           /\ Len(results) = Len(items)
           /\ \A i \in DOMAIN results :
                results[i].item_key \in lms_failed
                    => results[i].read_min = 0 /\ results[i].do_min = 0

ZeroDuration == <<"00", "00", "00">>

Malformed(d) == Len(d) # 3 \/ \E i \in DOMAIN d : ~IntParses(d[i])

\* C4: "00:00:00" and malformed strings convert to 0 seconds and are never
\* stored by a save, and every stored string with seconds > 0 has three
\* integer fields none of which is negative.
C4_InvalidDurationsRejected ==
    /\ \A d \in Durations :
            d = ZeroDuration \/ Malformed(d) => hhmmss_to_seconds(d) = 0
    /\ \A k \in DOMAIN pending_videos :
            pending_videos[k].seconds > 0
                => /\ ~Malformed(pending_videos[k].hhmmss)
                   /\ \A i \in 1..3 : IntOf(pending_videos[k].hhmmss[i]) >= 0

\* 3600*h + 60*m + s of a stored string
FieldSeconds(d) == 3600 * IntOf(d[1]) + 60 * IntOf(d[2]) + IntOf(d[3])

RECURSIVE SavedSeconds(_)
SavedSeconds(keys) ==
    IF keys = {} THEN 0
    ELSE LET k == CHOOSE x \in keys : TRUE
         IN  FieldSeconds(pending_videos[k].hhmmss) + SavedSeconds(keys \ {k})

VideosOf(item_key) == {k \in DOMAIN pending_videos : pending_videos[k].item_key = item_key}

\* C5: after every run, each record's watch_min is round(S / 60, 2) with S
\* the sum, over all pending videos of the record's item, of 3600*h + 60*m + s
\* of the string stored for the video; "01:30:00" is stored as 5400 seconds.
C5_WatchIsSumOfSaved ==
    /\ \A i \in DOMAIN results :
            results[i].watch_min
                = Round2(Rat(SavedSeconds(VideosOf(results[i].item_key)), 60))
    /\ \A k \in DOMAIN pending_videos :
            pending_videos[k].hhmmss = <<"01", "30", "00">>
                => pending_videos[k].seconds = 5400

\* an item with two saved videos, one of them "01:30:00", and more than 90
\* watch minutes
C5_Witness ==
    \E i \in DOMAIN results :
        /\ \E k \in VideosOf(results[i].item_key) :
                pending_videos[k].hhmmss = <<"01", "30", "00">>
        /\ Cardinality({k \in VideosOf(results[i].item_key) :
                            pending_videos[k].seconds > 0}) >= 2
        /\ results[i].watch_min > 9000
        /\ message = "Saved."

----------------------------------------------------------------------------
(* Properties of canvas_get (SpecPaging).                                  *)

\* C3: on a chain of N pages canvas_get fetches page after page, never more
\* than N times; it is at the end of the loop exactly after N fetches and
\* returns there, with the entries of all N pages in page order.
C3_ChainFetchedOnce ==
    IsChain(cg_pages)
        => /\ cg_pc # "raised"
           /\ cg_fetches <= Len(cg_pages)
           /\ cg_out = EntriesOf(SubSeq(cg_pages, 1, cg_fetches))
           /\ cg_url = (IF cg_fetches = Len(cg_pages) THEN 0 ELSE cg_fetches + 1)
           /\ (cg_pc = "done" => cg_fetches = Len(cg_pages))

\* a chain of MaxPages pages, returned
C3_Witness ==
    /\ IsChain(cg_pages)
    /\ Len(cg_pages) = MaxPages
    /\ cg_pc = "done"
    /\ cg_fetches = MaxPages

----------------------------------------------------------------------------
(* Properties of extract_file_text (SpecFile).                             *)

\* C6: a download whose payload is larger than max_bytes yields empty text
\* and zero units, whatever the content type.
C6_OversizedYieldsEmpty ==
    (/\ ef_call.done
     /\ ef_call.dl.has_url
     /\ ef_call.dl.status = "ok"
     /\ Len(ef_call.dl.payload) > ef_call.max_bytes)
        => ef_call.out = [raised |-> FALSE, text |-> <<>>, pages |-> 0]

----------------------------------------------------------------------------
(* Properties of the rollup (SpecRollup).                                  *)

\* the module rows of the table: all but the last
ModuleRows(table) == SubSeq(table, 1, Len(table) - 1)

\* C7: the module rows are in ascending module position, there is a row for
\* every position the records hold, and "Grand Total" is the last row and no
\* other.
C7_RowsAscendingTotalLast ==
    (ru_call.done /\ ru_call.res # <<>>)
        => LET table == ru_call.table
               rows == ModuleRows(table)
           IN  /\ table[Len(table)].module = "Grand Total"
               /\ \A i \in DOMAIN rows : rows[i].module # "Grand Total"
               /\ \A i, j \in DOMAIN rows :
                    i < j => rows[i].module_position <= rows[j].module_position
               /\ {rows[i].module_position : i \in DOMAIN rows}
                    = {ru_call.res[i].module_position : i \in DOMAIN ru_call.res}

\* records of modules at positions [2, 0, 1], rolled up as [0, 1, 2] and the
\* total
C7_Witness ==
    /\ ru_call.done
    /\ Len(ru_call.res) = 3
    /\ Column(ru_call.res, "module_position") = <<2, 0, 1>>
    /\ Column(ru_call.res, "module") = <<"Week 1", "Week 2", "">>
    /\ Column(ru_call.table, "module_position") = <<0, 1, 2, 3>>
    /\ ru_call.table[4].module = "Grand Total"

PositionsOf(res, name) ==
    {res[i].module_position : i \in {j \in DOMAIN res : res[j].module = name}}

\* C8: the rollup has one row per distinct module name, at the least
\* position among the records of that name, and the records without a module
\* name are under "(no module)".
C8_OneRowPerModuleName ==
    (ru_call.done /\ ru_call.res # <<>>)
        => LET rows == ModuleRows(ru_call.table)
               label(name) == IF name = "" THEN "(no module)" ELSE name
           IN  /\ \A i, j \in DOMAIN rows : rows[i].module = rows[j].module => i = j
               /\ {rows[i].module : i \in DOMAIN rows}
                    = {label(ru_call.res[i].module) : i \in DOMAIN ru_call.res}
               /\ \A i \in DOMAIN ru_call.res :
                    \E k \in DOMAIN rows :
                        /\ rows[k].module = label(ru_call.res[i].module)
                        /\ \A p \in PositionsOf(ru_call.res, ru_call.res[i].module) :
                                rows[k].module_position <= p

----------------------------------------------------------------------------
(* Properties of the estimator.                                            *)

\* an attempt of the first kind raises: no JSON object, or a field float()
\* rejects
FirstAttemptRaises(r) == ~LoadsObject(r) \/ FloatFails(r)

\* an attempt of the second kind raises: the request fails, or float()
\* rejects the field
SecondAttemptRaises(r) == r.kind = "error" \/ FloatFails(coerce_json(r))

\* the iteration sends the task-time call
TaskCallSent(c) ==
    /\ c.inp.use_llm
    /\ c.env.fetch_ok
    /\ \/ c.it.item_type = "Quiz" /\ c.it.content_id # 0
       \/ c.it.item_type \in {"Assignment", "Discussion"} /\ c.env.body.words > 0

\* C9 (SpecEst): when both attempts of the task-time call fail, the record
\* holds the do minutes heuristic mode gives the same item, and the
\* rationale holds the reason of the failure.
C9_FailedEstimatorUsesHeuristic ==
    (/\ est_call.done
     /\ config.sdk
     /\ TaskCallSent(est_call)
     /\ FirstAttemptRaises(est_call.env.task[1])
     /\ SecondAttemptRaises(est_call.env.task[2]))
        => LET heur == ProcessOne(est_call.it,
                                  [est_call.inp EXCEPT !.use_llm = FALSE],
                                  est_call.env).rec
               rec == est_call.out.rec
           IN  /\ rec.do_min = heur.do_min
               /\ rec.difficulty.work_rationale = "default 0 (LLM unavailable)"

\* C10 (SpecLlm): azure_llm_difficulty and azure_llm_task_time never raise,
\* and what they return has every key set.
C10_EstimatorNeverRaises ==
    llm_call.done
        => /\ ~llm_call.out.raised
           /\ IF llm_call.fn = "azure_llm_task_time"
              THEN llm_call.out.rationale # Nil
              ELSE llm_call.out.label # Nil /\ llm_call.out.notes # Nil

----------------------------------------------------------------------------
(* Further properties of the session (Spec).                               *)

\* C11: a pending video, once in the session, stays under its key in every
\* later run, with the duration it holds unless a save has just changed it.
C11_PendingKept ==
    [][\A k \in DOMAIN pending_videos :
            /\ k \in DOMAIN pending_videos'
            /\ message' # "Saved." => pending_videos'[k] = pending_videos[k]]_vars

\* C12: read_min, watch_min, do_min and total_min of every result record are
\* at least 0.
C12_MinutesNonNegative ==
    \A i \in DOMAIN results :
        /\ results[i].read_min >= 0
        /\ results[i].watch_min >= 0
        /\ results[i].do_min >= 0
        /\ results[i].total_min >= 0

----------------------------------------------------------------------------
(* Properties of the estimates of one item.                                *)

\* C13 (SpecRead): with the default difficulty of heuristic mode (score 0.5,
\* wpm adjustment 1.0) the read minutes of w words are
\* w / max(80, base_wpm) * (1 + 0.15 * 0.5), and 450 words at 225 words per
\* minute read in 2.15 minutes.
C13_ReadingFormula ==
    (est_call.done /\ est_call.difficulty = default_difficulty)
        => /\ est_call.out
                = Rat(est_call.words * 1075, Max(80, est_call.base_wpm) * 1000)
           /\ (est_call.words = 450 /\ est_call.base_wpm = 225
                    => Round2(est_call.out) = 215)

\* the table of the heuristic, in hundredths of a minute
HeuristicTable(item_type, words, level) ==
    LET base == IF item_type = "Discussion" THEN 35
                ELSE IF words < 150 THEN 30
                ELSE IF words < 600 THEN 60 ELSE 120
    IN  base * (IF level = "Graduate" THEN 125 ELSE 100)

\* the words of the text the iteration fetched
FetchedWords(c) == IF c.env.fetch_ok THEN c.env.body.words ELSE 0

HeuristicTaskCase(c) ==
    c.done /\ ~c.inp.use_llm /\ c.it.item_type \in {"Assignment", "Discussion"}

\* C14 as stated (SpecEst): in heuristic mode an Assignment is recorded with
\* 30, 60 or 120 do minutes by its word count and a Discussion with 35
\* whatever its word count, times 1.25 for Graduate.
C14_HeuristicDoMinutesAnyText ==
    HeuristicTaskCase(est_call)
        => est_call.out.rec.do_min
            = HeuristicTable(est_call.it.item_type, FetchedWords(est_call),
                             est_call.inp.level)

\* C14 as amended (SpecEst): the table holds for an item whose text has at
\* least one word; an item without text is recorded with 0 do minutes.
C14_HeuristicDoMinutes ==
    HeuristicTaskCase(est_call)
        => est_call.out.rec.do_min
            = (IF FetchedWords(est_call) = 0 THEN 0
               ELSE HeuristicTable(est_call.it.item_type, FetchedWords(est_call),
                                   est_call.inp.level))

\* a Graduate assignment of 600 words, recorded with 150 do minutes
C14_Witness ==
    /\ HeuristicTaskCase(est_call)
    /\ est_call.it.item_type = "Assignment"
    /\ est_call.inp.level = "Graduate"
    /\ FetchedWords(est_call) = 600
    /\ est_call.out.rec.do_min = 15000

\* the quiz table, in hundredths of a minute
QuizTable(meta) ==
    IF meta.time_limit # 0 THEN meta.time_limit * 100
    ELSE IF meta.question_count = 0 THEN 1000
    ELSE Max(500, meta.question_count * 200)

QuizCase(c) == c.done /\ c.it.item_type = "Quiz"

\* the estimator returns an estimate for the quiz
QuizRefined(c) == c.inp.use_llm /\ c.it.content_id # 0 /\ c.env.fetch_ok /\ config.sdk

\* C15 as stated (SpecEst): the do minutes of a Quiz are its time limit when
\* the LMS gives one, else max(5, 2 * question count), and 10 when the
\* question count is unknown.
C15_QuizDoMinutesAlways ==
    QuizCase(est_call) => est_call.out.rec.do_min = QuizTable(est_call.it.content_details)

\* C15 as amended (SpecEst): the table holds whenever the estimator returns
\* no estimate for the quiz; an estimate it returns is recorded instead.
C15_QuizDoMinutes ==
    QuizCase(est_call)
        => est_call.out.rec.do_min
            = (IF QuizRefined(est_call)
               THEN Round2(Milli(azure_llm_task_time(config.sdk, est_call.env.task[1],
                                                     est_call.env.task[2]).do_minutes))
               ELSE QuizTable(est_call.it.content_details))

\* heuristic mode: a quiz of one question without time limit, recorded with
\* the floor of 5 minutes
C15_Witness ==
    /\ QuizCase(est_call)
    /\ ~est_call.inp.use_llm
    /\ est_call.it.content_details.time_limit = 0
    /\ est_call.it.content_details.question_count = 1
    /\ est_call.out.rec.do_min = 500

----------------------------------------------------------------------------
(* Requests of one estimator call (SpecLlm).                               *)

\* C16: one call sends at most two requests: the first asks for a JSON
\* object; a second, without response format, follows exactly when the first
\* attempt did not give an object with a usable number; nothing follows the
\* second.
C16_AtMostTwoRequests ==
    llm_call.done
        => LET q == llm_call.out.requests
               retried == llm_call.sdk_ok /\ FirstAttemptRaises(llm_call.r1)
           IN  /\ Len(q) <= 2
               /\ (Len(q) >= 1 => q[1] = "json_object")
               /\ (Len(q) = 2 <=> retried)
               /\ (Len(q) = 2 => q[2] = "none")
               /\ (Len(q) = 1 <=> llm_call.sdk_ok /\ ~retried)

\* a task-time call whose first reply is prose and which sent the retry
C16_Witness ==
    /\ llm_call.done
    /\ llm_call.fn = "azure_llm_task_time"
    /\ llm_call.sdk_ok
    /\ llm_call.r1.kind = "prose"
    /\ llm_call.out.requests = <<"json_object", "none">>

----------------------------------------------------------------------------
(* Frame of the scan and back-references of the videos (Spec).             *)

ScanErrors ==
    {"Enter a Canvas Course ID.", "Canvas configuration not set.", "Canvas API error"}

\* C17: a run whose scan fails leaves items, results and pending videos as
\* they were; a run whose scan succeeds sets items to the listed items and
\* results and pending videos to empty.
C17_ScanFrame ==
    [][/\ message' \in ScanErrors
            => /\ items' = items
               /\ results' = results
               /\ pending_videos' = pending_videos
       /\ message' = "Found module items."
            => /\ items' \in {get_modules_with_items(mods) : mods \in Courses}
               /\ results' = <<>>
               /\ pending_videos' = NoPending]_vars

\* a scan failed by the LMS in a session that holds results and a saved video
C17_Witness ==
    /\ message = "Canvas API error"
    /\ results # <<>>
    /\ \E k \in DOMAIN pending_videos : pending_videos[k].seconds > 0

\* C18: every pending video's item_key is the item_key of a record of the
\* session results.
C18_PendingRefersToRecord ==
    \A k \in DOMAIN pending_videos :
        \E i \in DOMAIN results : results[i].item_key = pending_videos[k].item_key

\* pending videos of two items, each with its record
C18_Witness ==
    /\ \E k1, k2 \in DOMAIN pending_videos :
            pending_videos[k1].item_key # pending_videos[k2].item_key
    /\ Len(results) = 2
    /\ message = "Processed items."

====
